---- MODULE Spec2Model ----
(***************************************************************************)
(* A model of the dokuwiki parser (src/parser.go, src/contexts.go).        *)
(*                                                                         *)
(* A byte is a one-character string; a []byte or a Go string is a sequence *)
(* of bytes.  The control bytes 0x00..0x08 are written "x00".."x08"; the   *)
(* bytes 0x09 and 0x0a are the tab "\t" and the line feed "\n", as in the  *)
(* program, whose NoWiki markers are {0, 9} and {0, 10}; the back quote    *)
(* 0x60 is written "x60".                                                  *)
(*                                                                         *)
(* The parent back-references of the nodes (BaseContext.parent) are copies *)
(* that no operation reads; they are left out.                             *)
(***************************************************************************)
EXTENDS Integers, Sequences, FiniteSets, TLC

VARIABLES
    task,               \* the entry point this run exercises
    pc,                 \* the position of the run
    fault,              \* "none", or the message of the panic that ended the run
    arg,                \* the []byte argument of the entry point
    ret,                \* the value a pure function returned
    physicalLines,      \* generateLines: the lines of the input
    physicalLineIndex,  \* generateLines: the index (0-based) of the next line
    blockBytes,         \* generateLines: the accumulation buffer
    lastBlockBytes,     \* generateLines: the buffer of the previous block
    isInCodeTag,        \* generateLines: the five verbatim modes
    isInFileTag,
    isInHTMLTag,
    isInhtmlTag,
    isInNoWikiTag,
    blocks,             \* generateLines: the blocks emitted so far
    blockIndex,         \* processContent: the index (0-based) of the next block
    Sections,           \* parseunit.Sections
    rawTextBytes,       \* parsePara: the paragraph's raw text
    offset,             \* parsePara: the read offset (0-based)
    currentEffect,      \* parsePara: the effect mask
    effectBytes,        \* parsePara: the accumulation buffer
    InnerContexts       \* parsePara, fixupLinks: c.InnerContexts, a Go slice

vars == <<task, pc, fault, arg, ret, physicalLines, physicalLineIndex, blockBytes,
          lastBlockBytes, isInCodeTag, isInFileTag, isInHTMLTag, isInhtmlTag,
          isInNoWikiTag, blocks, blockIndex, Sections, rawTextBytes, offset,
          currentEffect, effectBytes, InnerContexts>>

genVars == <<physicalLines, physicalLineIndex, blockBytes, lastBlockBytes,
             isInCodeTag, isInFileTag, isInHTMLTag, isInhtmlTag, isInNoWikiTag,
             blocks>>

paraVars == <<rawTextBytes, offset, currentEffect, effectBytes>>

-----------------------------------------------------------------------------
(* Bounds of the model. *)

\* longest line handed to parseSectionHeader
MaxHeaderLen == 5
\* longest line handed to parseListItem
MaxItemLen == 6
\* most lines of an input of Parse made of CoreLines
MaxLines == 4
\* longest paragraph text over the small alphabet handed to parsePara
MaxParaLen == 3
\* how far past the length of the text a scan that does not advance is followed
MaxRepeat == 2
\* longest media body over the small alphabet handed to parseMedia
MaxMediaLen == 4
\* most digits of a width or height of a media body
MaxDigits == 2
\* most nodes of a sequence handed to fixupLinks
MaxFixLen == 3
\* most spare cells (capacity - length) of a sequence handed to fixupLinks
MaxSpare == 2

-----------------------------------------------------------------------------
(* Bytes and the library functions the program calls. *)

NUL == "x00"

\* the byte 0x60, the back quote of the monospace delimiter
BackQuote == "x60"

startOfCodeTag == <<NUL, "x01">>
endOfCodeTag == <<NUL, "x02">>
startOfFileTag == <<NUL, "x03">>
endOfFileTag == <<NUL, "x04">>
startOfHTMLTag == <<NUL, "x05">>
endOfHTMLTag == <<NUL, "x06">>
startOfhtmlTag == <<NUL, "x07">>
endOfhtmlTag == <<NUL, "x08">>
startOfNoWikiTag == <<NUL, "\t">>
endOfNoWikiTag == <<NUL, "\n">>

noneType == 0
sectionHeaderType == 1
unOrderedListType == 2
orderedListType == 3
paraType == 4

\* unicode.IsSpace on the bytes of the model
IsSpace(b) == b \in {" ", "\t", "\n", "\r"}

\* the number of leading bytes of s that are in set
LeadRun(s, set) ==
    IF \A i \in 1..Len(s) : s[i] \in set
    THEN Len(s)
    ELSE (CHOOSE i \in 1..Len(s) : s[i] \notin set /\ \A j \in 1..(i - 1) : s[j] \in set) - 1

\* the number of trailing bytes of s that are in set
TrailRun(s, set) ==
    IF \A i \in 1..Len(s) : s[i] \in set
    THEN Len(s)
    ELSE Len(s) - (CHOOSE i \in 1..Len(s) : s[i] \notin set /\ \A j \in (i + 1)..Len(s) : s[j] \in set)

\* strings.TrimRight(s, cutset)
TrimRight(s, cutset) == SubSeq(s, 1, Len(s) - TrailRun(s, cutset))

\* bytes.TrimSpace, strings.TrimSpace
TrimSpace(s) ==
    LET sp == {" ", "\t", "\n", "\r"}
        lead == LeadRun(s, sp)
    IN  IF lead = Len(s) THEN <<>> ELSE SubSeq(s, lead + 1, Len(s) - TrailRun(s, sp))

\* bytes.HasSuffix
HasSuffix(s, suffix) ==
    /\ Len(s) >= Len(suffix)
    /\ SubSeq(s, Len(s) - Len(suffix) + 1, Len(s)) = suffix

\* bytes.Index, bytes.IndexByte: the 0-based index of the first sep in s, or -1
Index(s, sep) ==
    LET hits == {i \in 1..(Len(s) - Len(sep) + 1) : SubSeq(s, i, i + Len(sep) - 1) = sep}
    IN  IF hits = {} THEN -1 ELSE (CHOOSE i \in hits : \A j \in hits : i <= j) - 1

\* the set of the bytes of s
Range(s) == {s[i] : i \in 1..Len(s)}

\* the Go slice expression s[lo:hi] of a []byte, 0-based, hi excluded
Slice(s, lo, hi) == SubSeq(s, lo + 1, hi)

-----------------------------------------------------------------------------
(* The regular expressions.  A Find returns <<>> for no match (nil) and    *)
(* else the groups, groups[0] first, as the sequence g with g[1] the whole *)
(* match.                                                                  *)

\* validSectionHeader = ^(=+)([^=]+)(=+)$
validSectionHeaderFind(s) ==
    LET a == LeadRun(s, {"="})
        rest == SubSeq(s, a + 1, Len(s))
        m == IF \A i \in 1..Len(rest) : rest[i] # "="
             THEN Len(rest)
             ELSE (CHOOSE i \in 1..Len(rest) : rest[i] = "=" /\ \A j \in 1..(i - 1) : rest[j] # "=") - 1
        tail == SubSeq(rest, m + 1, Len(rest))
    IN  IF a >= 1 /\ m >= 1 /\ Len(tail) >= 1 /\ \A i \in 1..Len(tail) : tail[i] = "="
        THEN <<s, SubSeq(s, 1, a), SubSeq(rest, 1, m), tail>>
        ELSE <<>>

\* validListItem = ^((  )+)([*-]) ((?s).*)$
validListItemFind(s) ==
    LET n == LeadRun(s, {" "})
    IN  IF /\ n >= 2
           /\ n % 2 = 0
           /\ Len(s) >= n + 2
           /\ s[n + 1] \in {"*", "-"}
           /\ s[n + 2] = " "
        THEN <<s, SubSeq(s, 1, n), SubSeq(s, n - 1, n), <<s[n + 1]>>, SubSeq(s, n + 3, Len(s))>>
        ELSE <<>>

Letters ==
    {"a", "b", "c", "d", "e", "f", "g", "h", "i", "j", "k", "l", "m", "n", "o", "p", "q",
     "r", "s", "t", "u", "v", "w", "x", "y", "z", "A", "B", "C", "D", "E", "F", "G", "H",
     "I", "J", "K", "L", "M", "N", "O", "P", "Q", "R", "S", "T", "U", "V", "W", "X", "Y",
     "Z"}

\* validCodeStartTag = <code [a-zA-Z]+>$ : the length of the match, 0 for none
validCodeStartTagLen(s) ==
    IF Len(s) = 0 \/ s[Len(s)] # ">"
    THEN 0
    ELSE LET body == SubSeq(s, 1, Len(s) - 1)
             k == TrailRun(body, Letters)
         IN  IF k >= 1 /\ HasSuffix(SubSeq(body, 1, Len(body) - k), <<"<", "c", "o", "d", "e", " ">>)
             THEN 6 + k + 1
             ELSE 0

\* whether <file [a-zA-Z]+ .+>$ matches s from position p (1-based) to its end
FileStartTagAt(s, p) ==
    /\ p + 5 <= Len(s)
    /\ SubSeq(s, p, p + 5) = <<"<", "f", "i", "l", "e", " ">>
    /\ LET k == LeadRun(SubSeq(s, p + 6, Len(s)), Letters)
           q == p + 6 + k
       IN  /\ k >= 1
           /\ q <= Len(s)
           /\ s[q] = " "
           /\ q + 2 <= Len(s)
           /\ s[Len(s)] = ">"
           /\ \A i \in (q + 1)..(Len(s) - 1) : s[i] # "\n"

\* validFileStartTag = <file [a-zA-Z]+ .+>$ : the length of the leftmost match, 0 for none
validFileStartTagLen(s) ==
    LET starts == {p \in 1..Len(s) : FileStartTagAt(s, p)}
    IN  IF starts = {}
        THEN 0
        ELSE Len(s) - (CHOOSE p \in starts : \A q \in starts : p <= q) + 1

-----------------------------------------------------------------------------
(* parseSectionHeader and parseListItem. *)

\* a slip: the delimiter runs are not compared
parseSectionHeader_anyTrail(line) ==
    LET lineString == TrimRight(line, {"\t", " "})
        groups == validSectionHeaderFind(lineString)
    IN  IF groups # <<>>
        THEN [level |-> Len(groups[2]), text |-> TrimSpace(groups[3])]
        ELSE [level |-> 0, text |-> <<>>]

parseSectionHeader(line) ==
    LET lineString == TrimRight(line, {"\t", " "})
        groups == validSectionHeaderFind(lineString)
    IN  IF groups # <<>> /\ Len(groups[2]) = Len(groups[4])
        THEN [level |-> Len(groups[2]), text |-> TrimSpace(groups[3])]
        ELSE [level |-> 0, text |-> <<>>]

\* a slip: the level counted in two-space groups
parseListItem_groups(line) ==
    LET groups == validListItemFind(line)
    IN  IF groups # <<>> /\ Len(groups[2]) >= 2
        THEN [level |-> Len(groups[2]) \div 2, ordered |-> groups[4] = <<"-">>,
              text |-> TrimSpace(groups[5])]
        ELSE [level |-> 0, ordered |-> FALSE, text |-> <<>>]

\* a slip: '*' taken for the ordered marker
parseListItem_starOrdered(line) ==
    LET groups == validListItemFind(line)
    IN  IF groups # <<>> /\ Len(groups[2]) >= 2
        THEN [level |-> Len(groups[2]), ordered |-> groups[4] = <<"*">>,
              text |-> TrimSpace(groups[5])]
        ELSE [level |-> 0, ordered |-> FALSE, text |-> <<>>]

parseListItem(line) ==
    LET groups == validListItemFind(line)
    IN  IF groups # <<>> /\ Len(groups[2]) >= 2
        THEN [level |-> Len(groups[2]), ordered |-> groups[4] = <<"-">>,
              text |-> TrimSpace(groups[5])]
        ELSE [level |-> 0, ordered |-> FALSE, text |-> <<>>]

-----------------------------------------------------------------------------
(* generateLines. *)

\* bytes.Split(s, "\n")
RECURSIVE Split(_)
Split(s) ==
    LET i == Index(s, <<"\n">>)
    IN  IF i = -1
        THEN <<s>>
        ELSE <<Slice(s, 0, i)>> \o Split(SubSeq(s, i + 2, Len(s)))

replaceBytesWithMarker(lineBytes, length, marker) ==
    SubSeq(lineBytes, 1, Len(lineBytes) - length) \o marker

\* a slip: only the code mode is looked at
AnyTag_codeOnly(st) == st.code

\* isInCodeTag || isInFileTag || isInHTMLTag || isInhtmlTag || isInNoWikiTag
AnyTag(st) == st.code \/ st.file \/ st.HTML \/ st.html \/ st.nowiki

\* the body of the byte loop for one byte b; st holds blockBytes and the modes
ScanByte(st, b) ==
    LET bb == Append(st.bb, b)
        codeLen == validCodeStartTagLen(bb)
        fileLen == validFileStartTagLen(bb)
        kept == [st EXCEPT !.bb = bb]
    IN  IF b # ">" THEN kept
        ELSE IF codeLen > 0
        THEN IF ~AnyTag(st)
             THEN [st EXCEPT !.code = TRUE, !.bb = replaceBytesWithMarker(bb, codeLen, startOfCodeTag)]
             ELSE kept
        ELSE IF HasSuffix(bb, <<"<", "/", "c", "o", "d", "e", ">">>)
        THEN [st EXCEPT !.code = FALSE, !.bb = replaceBytesWithMarker(bb, 7, endOfCodeTag)]
        ELSE IF fileLen > 0
        THEN IF ~AnyTag(st)
             THEN [st EXCEPT !.file = TRUE, !.bb = replaceBytesWithMarker(bb, fileLen, startOfFileTag)]
             ELSE kept
        ELSE IF HasSuffix(bb, <<"<", "/", "f", "i", "l", "e", ">">>)
        THEN [st EXCEPT !.file = FALSE, !.bb = replaceBytesWithMarker(bb, 7, endOfFileTag)]
        ELSE IF HasSuffix(bb, <<"<", "h", "t", "m", "l", ">">>)
        THEN IF ~AnyTag(st)
             THEN [st EXCEPT !.html = TRUE, !.bb = replaceBytesWithMarker(bb, 6, startOfhtmlTag)]
             ELSE kept
        ELSE IF HasSuffix(bb, <<"<", "/", "h", "t", "m", "l", ">">>)
        THEN [st EXCEPT !.html = FALSE, !.bb = replaceBytesWithMarker(bb, 7, endOfhtmlTag)]
        ELSE IF HasSuffix(bb, <<"<", "H", "T", "M", "L", ">">>)
        THEN IF ~AnyTag(st)
             THEN [st EXCEPT !.HTML = TRUE, !.bb = replaceBytesWithMarker(bb, 6, startOfHTMLTag)]
             ELSE kept
        ELSE IF HasSuffix(bb, <<"<", "/", "H", "T", "M", "L", ">">>)
        THEN [st EXCEPT !.HTML = FALSE, !.bb = replaceBytesWithMarker(bb, 7, endOfHTMLTag)]
        ELSE IF HasSuffix(bb, <<"<", "n", "o", "w", "i", "k", "i", ">">>)
        THEN IF ~AnyTag(st)
             THEN [st EXCEPT !.nowiki = TRUE, !.bb = replaceBytesWithMarker(bb, 8, startOfNoWikiTag)]
             ELSE kept
        ELSE IF HasSuffix(bb, <<"<", "/", "n", "o", "w", "i", "k", "i", ">">>)
        THEN [st EXCEPT !.nowiki = FALSE, !.bb = replaceBytesWithMarker(bb, 9, endOfNoWikiTag)]
        ELSE kept

\* the byte loop over the bytes i..Len(physicalLine) of a physical line
RECURSIVE ScanLine(_, _, _)
ScanLine(st, physicalLine, i) ==
    IF i > Len(physicalLine)
    THEN st
    ELSE ScanLine(ScanByte(st, physicalLine[i]), physicalLine, i + 1)

headerBlock(headerLevel, headerContent) ==
    [blockType |-> sectionHeaderType, headerLevel |-> headerLevel, listLevel |-> 0,
     forceNewList |-> FALSE, rawText |-> headerContent]

listBlock(item, lastBytes) ==
    [blockType |-> IF item.ordered THEN orderedListType ELSE unOrderedListType,
     headerLevel |-> 0, listLevel |-> item.level,
     forceNewList |-> (Len(TrimSpace(lastBytes)) = 0), rawText |-> item.text]

paraBlock(bytes) ==
    [blockType |-> paraType, headerLevel |-> 0, listLevel |-> 0, forceNewList |-> FALSE,
     rawText |-> bytes]

\* whether a paragraph stops before nextPhysicalLine
currentBlockStopsHere(nextPhysicalLine) ==
    \/ Len(TrimSpace(nextPhysicalLine)) = 0
    \/ parseListItem(nextPhysicalLine).level > 0
    \/ parseSectionHeader(nextPhysicalLine).level > 0

\* "process new line": what the end of a physical line does to the buffer st.bb,
\* given lastBlockBytes, the blocks so far and the next physical line
ProcessNewLine(st, lastBytes, blks, nextPhysicalLine) ==
    LET header == parseSectionHeader(st.bb)
        item == parseListItem(st.bb)
    IN  IF AnyTag(st)
        THEN [bb |-> Append(st.bb, "\n"), last |-> lastBytes, blocks |-> blks]
        ELSE IF Len(TrimSpace(st.bb)) = 0
        THEN [bb |-> <<>>, last |-> st.bb, blocks |-> blks]
        ELSE IF header.level > 0
        THEN [bb |-> <<>>, last |-> st.bb,
              blocks |-> Append(blks, headerBlock(header.level, header.text))]
        ELSE IF item.level > 0
        THEN [bb |-> <<>>, last |-> st.bb, blocks |-> Append(blks, listBlock(item, lastBytes))]
        ELSE IF currentBlockStopsHere(nextPhysicalLine)
        THEN [bb |-> <<>>, last |-> st.bb, blocks |-> Append(blks, paraBlock(st.bb))]
        ELSE [bb |-> Append(st.bb, " "), last |-> lastBytes, blocks |-> blks]

-----------------------------------------------------------------------------
(* processLine.  The nodes are Go struct values held in interface values:  *)
(* a type assertion such as currentBlock.(ListContext) yields a copy, and  *)
(* an append to the copy's InnerContexts leaves the stored node as it was. *)

SectionHeaderContext(headerLevel, headerText) ==
    [kind |-> "SectionHeaderContext", HeaderLevel |-> headerLevel, HeaderText |-> headerText]

ParaContext(text) ==
    [kind |-> "ParaContext", rawText |-> text, InnerContexts |-> <<>>]

ListContext(level, isOrdered, inner) ==
    [kind |-> "ListContext", Level |-> level, Ordered |-> isOrdered, InnerContexts |-> inner]

\* the goDeeper loop from currentBlock: "createTopLevelList", "panic", or
\* "copy" when the only append made is to the copy listBlock
RECURSIVE goDeeper(_, _)
goDeeper(currentBlock, block) ==
    IF currentBlock.kind # "ListContext"
    THEN "createTopLevelList"
    ELSE IF currentBlock.Level < block.listLevel
    THEN IF Len(currentBlock.InnerContexts) > 0
         THEN LET nextLevelBlock == currentBlock.InnerContexts[Len(currentBlock.InnerContexts)]
              IN  IF nextLevelBlock.kind = "ListContext"
                  THEN goDeeper(nextLevelBlock, block)
                  ELSE "copy"
         ELSE "panic"
    ELSE IF currentBlock.Level = block.listLevel
    THEN IF currentBlock.Ordered = (block.blockType = orderedListType)
         THEN "copy"
         ELSE "createTopLevelList"
    ELSE "createTopLevelList"

\* the list created at top level: the Paragraph of the item is appended to
\* the copy justAddedListContext, so the stored list has no child
topLevelList(block) ==
    ListContext(block.listLevel, block.blockType = orderedListType, <<>>)

\* processLine: the Sections afterwards and the panic raised, if any
processLine(sections, block) ==
    IF block.blockType = sectionHeaderType
    THEN [Sections |-> Append(sections, SectionHeaderContext(block.headerLevel, block.rawText)),
          fault |-> "none"]
    ELSE IF block.blockType = orderedListType \/ block.blockType = unOrderedListType
    THEN IF Len(sections) = 0
         THEN [Sections |-> Append(sections, ParaContext(block.rawText)), fault |-> "none"]
         ELSE LET outcome == IF block.forceNewList
                             THEN "createTopLevelList"
                             ELSE goDeeper(sections[Len(sections)], block)
              IN  IF outcome = "panic"
                  THEN [Sections |-> sections, fault |-> "PANIC!"]
                  ELSE IF outcome = "createTopLevelList"
                  THEN [Sections |-> Append(sections, topLevelList(block)), fault |-> "none"]
                  ELSE [Sections |-> sections, fault |-> "none"]
    ELSE [Sections |-> Append(sections, ParaContext(block.rawText)), fault |-> "none"]

-----------------------------------------------------------------------------
(* Go slices of nodes.  A slice is its backing array from the slice's      *)
(* start to its capacity (arr) and its length (len); the cells past len    *)
(* hold what was last written there.  append writes in place when the      *)
(* capacity allows and else copies to a new array, whose capacity is the   *)
(* one the gc runtime's growslice gives for 16-byte elements.              *)

NilNode == [kind |-> "nil"]

NilSlice == [arr |-> <<>>, len |-> 0]

\* the elements of the slice s
Elems(s) == SubSeq(s.arr, 1, s.len)

\* the capacity of the array append allocates for needed elements
growslice(oldCap, needed) == IF needed > 2 * oldCap THEN needed ELSE 2 * oldCap

\* append(s, xs...)
AppendSlice(s, xs) ==
    LET n == s.len + Len(xs)
    IN  IF Len(xs) = 0 THEN s
        ELSE IF n <= Len(s.arr)
        THEN [arr |-> [i \in 1..Len(s.arr) |->
                          IF i > s.len /\ i <= n THEN xs[i - s.len] ELSE s.arr[i]],
              len |-> n]
        ELSE [arr |-> [i \in 1..growslice(Len(s.arr), n) |->
                          IF i <= s.len THEN s.arr[i]
                          ELSE IF i <= n THEN xs[i - s.len]
                          ELSE NilNode],
              len |-> n]

-----------------------------------------------------------------------------
(* The inline nodes, parseLink, parseMedia, endCurrentEffect. *)

TextEffectBold == 1
TextEffectItalic == 2
TextEffectUnderline == 4
TextEffectMonoSpace == 8

AlignLeft == 0
AlignCenter == 1
AlignRight == 2

TextEffectContext(effectType, text) ==
    [kind |-> "TextEffectContext", EffectType |-> effectType, Text |-> text]

HyperLinkContext(hyperLink, text, isInternal) ==
    [kind |-> "HyperLinkContext", HyperLink |-> hyperLink, Text |-> text,
     IsInternal |-> isInternal]

\* CodeFileContext, HTMLContext or NoWikiContext
LiteralContext(kind, text) == [kind |-> kind, Text |-> text]

\* (currentEffect & bit) > 0
HasEffect(mask, bit) == (mask \div bit) % 2 = 1

\* if (currentEffect & bit) > 0 { currentEffect ^= bit } else { currentEffect |= bit }
ToggleEffect(mask, bit) == IF HasEffect(mask, bit) THEN mask - bit ELSE mask + bit

\* endCurrentEffect: the nodes afterwards (the caller's effectBytes become empty)
endCurrentEffect(inner, bytes, effect) ==
    IF Len(bytes) = 0 THEN inner ELSE AppendSlice(inner, <<TextEffectContext(effect, bytes)>>)

\* parseLink: the node appended
parseLink(linkBytes) ==
    LET i == Index(linkBytes, <<"|">>)
    IN  IF i # -1
        THEN HyperLinkContext(Slice(linkBytes, 0, i), Slice(linkBytes, i + 1, Len(linkBytes)),
                              FALSE)
        ELSE HyperLinkContext(<<>>, linkBytes, TRUE)

Digits == {"0", "1", "2", "3", "4", "5", "6", "7", "8", "9"}

DigitValue(d) ==
    CASE d = "0" -> 0 [] d = "1" -> 1 [] d = "2" -> 2 [] d = "3" -> 3 [] d = "4" -> 4
      [] d = "5" -> 5 [] d = "6" -> 6 [] d = "7" -> 7 [] d = "8" -> 8 [] d = "9" -> 9

\* strconv.ParseInt(s, 10, 64) with the error dropped: 0 for a syntax error
RECURSIVE ParseInt(_)
ParseInt(s) ==
    IF Len(s) = 0 \/ \E i \in 1..Len(s) : s[i] \notin Digits
    THEN 0
    ELSE IF Len(s) = 1 THEN DigitValue(s[1])
    ELSE 10 * ParseInt(SubSeq(s, 1, Len(s) - 1)) + DigitValue(s[Len(s)])

\* whether t matches \?\d+(x\d+)? as a whole
IsDimension(t) ==
    /\ Len(t) >= 2
    /\ t[1] = "?"
    /\ LET w == LeadRun(SubSeq(t, 2, Len(t)), Digits)
       IN  /\ w >= 1
           /\ \/ w + 1 = Len(t)
              \/ /\ w + 3 <= Len(t)
                 /\ t[w + 2] = "x"
                 /\ \A i \in (w + 3)..Len(t) : t[i] \in Digits

\* validMedia = ^(.*?)(\?\d+(x\d+)?)?$ : <<>> for no match, else <<whole, group 1, group 2>>
validMediaFind(s) ==
    LET cuts == {i \in 0..Len(s) :
                    /\ \A j \in 1..i : s[j] # "\n"
                    /\ (i = Len(s) \/ IsDimension(SubSeq(s, i + 1, Len(s))))}
    IN  IF cuts = {}
        THEN <<>>
        ELSE LET i == CHOOSE c \in cuts : \A d \in cuts : c <= d
             IN  <<s, SubSeq(s, 1, i), SubSeq(s, i + 1, Len(s))>>

MediaContext(width, height, align, title, resource) ==
    [kind |-> "MediaContext", Width |-> width, Height |-> height, Align |-> align,
     Title |-> title, MediaResouce |-> resource]

\* the width and height read from groups[2]
mediaDimensions(group2) ==
    LET dimentions == Slice(group2, 1, Len(group2) - 1)
        i == Index(dimentions, <<"x">>)
    IN  IF i # -1
        THEN [Width |-> ParseInt(Slice(dimentions, 0, i)),
              Height |-> ParseInt(Slice(dimentions, i + 1, Len(dimentions)))]
        ELSE [Width |-> ParseInt(dimentions), Height |-> 0]

\* parseMedia: the node appended, or the panic of an index out of range
parseMedia(mediaBytes) ==
    LET i == Index(mediaBytes, <<"|">>)
        title == IF i # -1 THEN Slice(mediaBytes, i + 1, Len(mediaBytes)) ELSE <<>>
        bytesLeft == IF i # -1 THEN Slice(mediaBytes, 0, i) ELSE mediaBytes
    IN  IF Len(bytesLeft) = 0
        THEN [fault |-> "index out of range", node |-> NilNode]
        ELSE LET align == IF bytesLeft[1] = " " THEN AlignLeft
                          ELSE IF bytesLeft[Len(bytesLeft)] = " " THEN AlignRight
                          ELSE AlignCenter
                 left == IF bytesLeft[1] = " " THEN Slice(bytesLeft, 1, Len(bytesLeft))
                         ELSE IF bytesLeft[Len(bytesLeft)] = " "
                         THEN Slice(bytesLeft, 0, Len(bytesLeft) - 1)
                         ELSE bytesLeft
                 groups == validMediaFind(left)
                 dims == IF groups # <<>> /\ Len(groups[3]) > 0
                         THEN mediaDimensions(groups[3])
                         ELSE [Width |-> 0, Height |-> 0]
             IN  IF groups = <<>>
                 THEN [fault |-> "index out of range", node |-> NilNode]
                 ELSE [fault |-> "none",
                       node |-> MediaContext(dims.Width, dims.Height, align, title, groups[2])]

-----------------------------------------------------------------------------
(* parsePara: one iteration of its scan loop. *)

\* the state of the scan after a panic with message msg
Panicked(st, msg) == [st EXCEPT !.fault = msg]

\* case 0x00 with nextByte a start marker: the literal node up to endTag
literalCase(st, raw, kind, endTag, msg) ==
    LET flushed == endCurrentEffect(st.inner, st.effectBytes, st.currentEffect)
        i == Index(SubSeq(raw, st.offset + 1, Len(raw)), endTag)
    IN  IF i # -1
        THEN [st EXCEPT !.inner = AppendSlice(flushed, <<LiteralContext(kind,
                                       Slice(raw, st.offset + 2, st.offset + i))>>),
                        !.effectBytes = <<>>,
                        !.currentEffect = 0]
        ELSE Panicked([st EXCEPT !.inner = flushed, !.effectBytes = <<>>,
                                 !.currentEffect = 0], msg)

\* case 0x60, '_', '/', '*': a pair toggles bit, a lone byte is buffered
effectCase(st, raw, ch, bit) ==
    IF raw[st.offset + 2] = ch
    THEN [st EXCEPT !.inner = endCurrentEffect(st.inner, st.effectBytes, st.currentEffect),
                    !.effectBytes = <<>>,
                    !.currentEffect = ToggleEffect(st.currentEffect, bit)]
    ELSE [st EXCEPT !.effectBytes = Append(st.effectBytes, ch)]

\* case '[': a link up to "]]"
linkCase(st, raw) ==
    LET i == Index(SubSeq(raw, st.offset + 1, Len(raw)), <<"]", "]">>)
        flushed == endCurrentEffect(st.inner, st.effectBytes, st.currentEffect)
    IN  IF raw[st.offset + 2] = "[" /\ i # -1
        THEN [st EXCEPT !.inner = AppendSlice(flushed,
                                      <<parseLink(Slice(raw, st.offset + 2, st.offset + i))>>),
                        !.effectBytes = <<>>,
                        !.currentEffect = 0,
                        !.offset = st.offset + i + 2]
        ELSE st

\* case '{': a media file up to "}}"
mediaCase(st, raw) ==
    LET i == Index(SubSeq(raw, st.offset + 1, Len(raw)), <<"}", "}">>)
        flushed == endCurrentEffect(st.inner, st.effectBytes, st.currentEffect)
        media == parseMedia(Slice(raw, st.offset + 2, st.offset + i))
    IN  IF raw[st.offset + 2] = "{" /\ i # -1
        THEN IF media.fault # "none"
             THEN [st EXCEPT !.inner = flushed, !.effectBytes = <<>>, !.currentEffect = 0,
                             !.fault = media.fault]
             ELSE [st EXCEPT !.inner = AppendSlice(flushed, <<media.node>>),
                             !.effectBytes = <<>>,
                             !.currentEffect = 0,
                             !.offset = st.offset + i + 2]
        ELSE st

\* the body of the loop "for offset < len(rawTextBytes)"; st holds offset,
\* currentEffect, effectBytes, c.InnerContexts (inner) and the panic, if any
scanIteration(st, raw) ==
    LET ch == raw[st.offset + 1]
        atEnd == st.offset + 1 >= Len(raw)
        nextByte == raw[st.offset + 2]
    IN  IF ch \in {NUL, BackQuote, "_", "/", "*", "[", "{"} /\ atEnd
        THEN Panicked(st, "index out of range")
        ELSE IF ch = NUL
        THEN IF nextByte = "x01"
             THEN literalCase(st, raw, "CodeFileContext", endOfCodeTag, "no endOfCode tag found!")
             ELSE IF nextByte = "x03"
             THEN literalCase(st, raw, "CodeFileContext", endOfFileTag, "no endOfFile tag found!")
             ELSE IF nextByte = "x05"
             THEN literalCase(st, raw, "HTMLContext", endOfHTMLTag, "no endOfHTML tag found!")
             ELSE IF nextByte = "x07"
             THEN literalCase(st, raw, "HTMLContext", endOfhtmlTag, "no endOfhtml tag found!")
             ELSE IF nextByte = "\t"
             THEN literalCase(st, raw, "NoWikiContext", endOfNoWikiTag, "no endOfNoWiki tag found!")
             ELSE st
        ELSE IF ch = BackQuote THEN effectCase(st, raw, ch, TextEffectMonoSpace)
        ELSE IF ch = "_" THEN effectCase(st, raw, ch, TextEffectUnderline)
        ELSE IF ch = "/" THEN effectCase(st, raw, ch, TextEffectItalic)
        ELSE IF ch = "*" THEN effectCase(st, raw, ch, TextEffectBold)
        ELSE IF ch = "[" THEN linkCase(st, raw)
        ELSE IF ch = "{" THEN mediaCase(st, raw)
        ELSE [st EXCEPT !.effectBytes = Append(st.effectBytes, ch), !.offset = st.offset + 1]

-----------------------------------------------------------------------------
(* fixupLinks and scanParaOnce. *)

URLStop == {" ", "\t", "\n", "\r", "/", "$", ".", "?", "#"}

\* the end (1-based, included) of the match of validURL that starts at p, 0 for none
\* validURL = (https?|ftp)://[^\s/$.?#].[^\s]*
URLMatchEnd(s, p) ==
    LET at(q, t) == q + Len(t) - 1 <= Len(s) /\ SubSeq(s, q, q + Len(t) - 1) = t
        sep == <<":", "/", "/">>
        q == IF at(p, <<"h", "t", "t", "p", "s">>) /\ at(p + 5, sep) THEN p + 8
             ELSE IF at(p, <<"h", "t", "t", "p">>) /\ at(p + 4, sep) THEN p + 7
             ELSE IF at(p, <<"f", "t", "p">>) /\ at(p + 3, sep) THEN p + 6
             ELSE 0
    IN  IF q = 0 \/ q + 1 > Len(s) \/ s[q] \in URLStop \/ s[q + 1] = "\n"
        THEN 0
        ELSE q + 1 + LeadRun(SubSeq(s, q + 2, Len(s)), {b \in Range(s) : ~IsSpace(b)})

\* validURL.FindStringSubmatchIndex: <<>> for no match, else <<groups[0], groups[1]>> (0-based)
validURLFindIndex(s) ==
    LET starts == {p \in 1..Len(s) : URLMatchEnd(s, p) > 0}
    IN  IF starts = {}
        THEN <<>>
        ELSE LET p == CHOOSE x \in starts : \A y \in starts : x <= y
             IN  <<p - 1, URLMatchEnd(s, p)>>

\* whether node i (1-based) of the slice is a TextEffectContext with a URL in its text
HasURL(node) ==
    node.kind = "TextEffectContext" /\ validURLFindIndex(node.Text) # <<>>

\* the nodes that replace the TextEffectContext tc
newContenxts(tc) ==
    LET groups == validURLFindIndex(tc.Text)
        before == Slice(tc.Text, 0, groups[1])
        url == Slice(tc.Text, groups[1], groups[2])
        after == Slice(tc.Text, groups[2], Len(tc.Text))
    IN  (IF Len(TrimSpace(before)) > 0 THEN <<TextEffectContext(tc.EffectType, before)>> ELSE <<>>)
        \o <<HyperLinkContext(url, url, FALSE)>>
        \o (IF Len(TrimSpace(after)) > 0 THEN <<TextEffectContext(tc.EffectType, after)>> ELSE <<>>)

\* the splice at index i (0-based) of the slice s:
\* append(append(s[:i], new...), s[i+1:]...) when i < len(s)-1, else append(s[:i], new...).
\* The inner append writes into the array of s when its capacity allows, and
\* s[i+1:] is read from that array afterwards.
splice(s, i, new) ==
    LET inner == AppendSlice([arr |-> s.arr, len |-> i], new)
        array == IF i + Len(new) <= Len(s.arr) THEN inner.arr ELSE s.arr
        rest == SubSeq(array, i + 2, s.len)
    IN  IF i < s.len - 1 THEN AppendSlice(inner, rest) ELSE inner

\* a slip: the splice is made and no link is reported, so fixupLinks stops
scanParaOnce_reportsNone(s) ==
    LET hits == {i \in 1..s.len : HasURL(s.arr[i])}
    IN  IF hits = {}
        THEN [found |-> FALSE, inner |-> s]
        ELSE LET i == CHOOSE x \in hits : \A y \in hits : x <= y
             IN  [found |-> FALSE, inner |-> splice(s, i - 1, newContenxts(s.arr[i]))]

\* scanParaOnce: whether a link was found, and c.InnerContexts afterwards
scanParaOnce(s) ==
    LET hits == {i \in 1..s.len : HasURL(s.arr[i])}
    IN  IF hits = {}
        THEN [found |-> FALSE, inner |-> s]
        ELSE LET i == CHOOSE x \in hits : \A y \in hits : x <= y
             IN  [found |-> TRUE, inner |-> splice(s, i - 1, newContenxts(s.arr[i]))]

\* fixupLinks as a function: c.InnerContexts when it returns
RECURSIVE fixupLinks(_)
fixupLinks(s) ==
    LET r == scanParaOnce(s)
    IN  IF r.found THEN fixupLinks(r.inner) ELSE r.inner

-----------------------------------------------------------------------------
(* Inputs. *)

\* all byte sequences over alphabet of length at most n
SeqsUpTo(alphabet, n) == UNION {[1..k -> alphabet] : k \in 0..n}

\* parser_test.go: "=== abc === "
TestHeaderLine == <<"=", "=", "=", " ", "a", "b", "c", " ", "=", "=", "=", " ">>

\* parser_test.go: "  - abc "
TestItemLine == <<" ", " ", "-", " ", "a", "b", "c", " ">>

HeaderLines == SeqsUpTo({"=", "a", " ", "\t"}, MaxHeaderLen) \cup {TestHeaderLine}

ItemLines == SeqsUpTo({" ", "*", "-", "a"}, MaxItemLen) \cup {TestItemLine}

\* strings.Join(lines, "\n"): the input whose lines are lines
RECURSIVE JoinLines(_)
JoinLines(lines) ==
    IF Len(lines) = 0 THEN <<>>
    ELSE IF Len(lines) = 1 THEN lines[1]
    ELSE lines[1] \o <<"\n">> \o JoinLines(Tail(lines))

LineItemA == <<" ", " ", "*", " ", "a">>
LineItemB == <<" ", " ", " ", " ", "*", " ", "b">>
LineItemC == <<" ", " ", "*", " ", "c">>
LineOrderedA == <<" ", " ", "-", " ", "a">>
LineHeader == <<"=", "h", "=">>
LinePlain == <<"p">>
LineEqA == <<"=", "a">>
LineBEq == <<"b", "=">>
LineBlank == <<>>
LineSpaces == <<" ">>
LinehtmlStart == <<"<", "h", "t", "m", "l", ">">>
LinehtmlEnd == <<"<", "/", "h", "t", "m", "l", ">">>
LineCodeEnd == <<"<", "/", "c", "o", "d", "e", ">">>
LineFileAttr == <<"<", "f", "i", "l", "e", " ", "a", " ", "b", ">">>
LineCodeAbc == <<"<", "c", "o", "d", "e", ">", "a", "b", "c">>
LineCodeAttrAbc == <<"<", "c", "o", "d", "e", " ", "x", ">", "a", "b", "c">>
NotBold == <<"*", "*", "n", "o", "t", " ", "b", "o", "l", "d", "*", "*">>
LineCodeNotBold ==
    <<"<", "c", "o", "d", "e", ">">> \o NotBold \o <<"<", "/", "c", "o", "d", "e", ">">>
LineCodeAttrNotBold ==
    <<"<", "c", "o", "d", "e", " ", "x", ">">> \o NotBold \o <<"<", "/", "c", "o", "d", "e", ">">>

\* the lines every input of at most MaxLines lines is made of
CoreLines == {LineItemA, LineItemB, LineOrderedA, LineHeader, LineBlank, LinehtmlStart}

\* inputs with lines outside CoreLines
MoreDocs ==
    {<<LineItemA, LineItemB, LineItemC>>,
     <<LinePlain, LineItemA, LineSpaces, LineItemA>>,
     <<LineCodeNotBold>>,
     <<LineCodeAttrNotBold>>,
     <<LineCodeAbc>>,
     <<LineCodeAttrAbc>>,
     <<LinehtmlStart, LineItemA, LinehtmlEnd>>,
     <<LinehtmlStart, LineCodeAttrAbc, LinehtmlEnd>>,
     <<LinehtmlStart, LineCodeEnd, LinehtmlEnd>>,
     <<LinehtmlEnd>>,
     <<LineFileAttr, LineHeader>>,
     <<LinehtmlStart, LineFileAttr, LinehtmlEnd>>,
     <<LinePlain \o LineCodeEnd>>,
     <<LinePlain, LinePlain>>,
     <<LineEqA, LineBEq>>,
     <<LineHeader, LineEqA, LineBEq, LinePlain>>}

Docs == UNION {[1..k -> CoreLines] : k \in 0..MaxLines} \cup MoreDocs

URLab == <<"h", "t", "t", "p", ":", "/", "/", "a", "b">>
URLcd == <<"h", "t", "t", "p", ":", "/", "/", "c", "d">>

\* "**bold** plain **bold again**"
TextBold ==
    <<"*", "*", "b", "o", "l", "d", "*", "*", " ", "p", "l", "a", "i", "n", " ", "*", "*", "b", "o", "l", "d", " ", "a", "g", "a", "i", "n", "*", "*">>
\* " image.png?200x100|Caption"
MediaExample ==
    <<" ", "i", "m", "a", "g", "e", ".", "p", "n", "g", "?", "2", "0", "0", "x", "1", "0", "0", "|", "C", "a", "p", "t", "i", "o", "n">>
TextMediaExample == <<"{", "{">> \o MediaExample \o <<"}", "}">>
\* what generateLines makes of "<code>**not bold**</code>", and the same
\* text between the two markers of a code region
TextCodeNotBold == <<"<", "c", "o", "d", "e", ">">> \o NotBold \o endOfCodeTag
TextMarkedNotBold == startOfCodeTag \o NotBold \o endOfCodeTag
TextURL == <<"a", " ", "h", "t", "t", "p", ":", "/", "/", "a", "b", " ", "b">>
TextTwoURLs == <<"h", "t", "t", "p", ":", "/", "/", "a", "b", " ", "h", "t", "t", "p", ":", "/", "/", "c", "d">>
TextLink == <<"[", "[", "a", "|", "b", "]", "]">>
TextLinkPlain == <<"[", "[", "a", "]", "]">>
TextLinkURL == <<"[", "[">> \o URLab \o <<"]", "]">>
TextHello == <<"h", "e", "l", "l", "o">>
\* texts with a lone delimiter byte, last or followed by another byte
LoneTexts ==
    {<<ch>> : ch \in {BackQuote, "_", "/", "*", "[", "{"}}
        \cup {<<ch, "a">> : ch \in {BackQuote, "_", "/", "*", "[", "{"}}

\* the paragraph texts handed to parsePara
ParaTexts ==
    SeqsUpTo({"a", "*", " "}, MaxParaLen)
        \cup {TextBold, TextMediaExample, TextCodeNotBold, TextMarkedNotBold, TextURL,
              TextTwoURLs, TextLink, TextLinkPlain, TextLinkURL, TextHello}
        \cup LoneTexts

\* a media body: an optional leading space, a name, '?', a width, an optional
\* 'x' and height, an optional '|' and title
MediaBody(lead, name, width, height, title) ==
    lead \o name \o <<"?">> \o width
         \o (IF height = <<>> THEN <<>> ELSE <<"x">> \o height)
         \o (IF title = <<>> THEN <<>> ELSE <<"|">> \o title)

Numbers == SeqsUpTo({"1", "0"}, MaxDigits) \ {<<>>}

MediaCases ==
    {<<lead, name, width, height, title>> :
        lead \in {<<>>, <<" ">>}, name \in {<<"a">>, <<"a", ".", "b">>},
        width \in Numbers, height \in Numbers \cup {<<>>}, title \in {<<>>, <<"t">>}}
        \cup {<<<<" ">>, <<"i", "m", "a", "g", "e", ".", "p", "n", "g">>, <<"2", "0", "0">>, <<"1", "0", "0">>, <<"C", "a", "p", "t", "i", "o", "n">>>>}

\* the bodies handed to parseMedia
MediaBodies ==
    {MediaBody(m[1], m[2], m[3], m[4], m[5]) : m \in MediaCases}
        \cup SeqsUpTo({" ", "a", "?", "1", "x", "|"}, MaxMediaLen)

\* the nodes of the sequences handed to fixupLinks
FixNodes ==
    {TextEffectContext(0, <<"a">>),
     TextEffectContext(TextEffectBold, URLab),
     TextEffectContext(0, TextURL),
     TextEffectContext(0, TextTwoURLs),
     HyperLinkContext(<<"l">>, <<"l">>, FALSE)}

\* the slices handed to fixupLinks: up to MaxFixLen nodes, up to MaxSpare spare cells
FixSlices ==
    {[arr |-> e \o [i \in 1..spare |-> NilNode], len |-> Len(e)] :
        e \in SeqsUpTo(FixNodes, MaxFixLen), spare \in 0..MaxSpare}

NoRet == [level |-> 0, text |-> <<>>]

Idle ==
    /\ fault = "none"
    /\ ret = NoRet
    /\ physicalLines = <<>>
    /\ physicalLineIndex = 0
    /\ blockBytes = <<>>
    /\ lastBlockBytes = <<>>
    /\ isInCodeTag = FALSE
    /\ isInFileTag = FALSE
    /\ isInHTMLTag = FALSE
    /\ isInhtmlTag = FALSE
    /\ isInNoWikiTag = FALSE
    /\ blocks = <<>>
    /\ blockIndex = 0
    /\ Sections = <<>>
    /\ rawTextBytes = <<>>
    /\ offset = 0
    /\ currentEffect = 0
    /\ effectBytes = <<>>
    /\ InnerContexts = NilSlice

InitParseSectionHeader ==
    /\ task = "parseSectionHeader"
    /\ pc = "call"
    /\ arg \in HeaderLines
    /\ Idle

InitParseListItem ==
    /\ task = "parseListItem"
    /\ pc = "call"
    /\ arg \in ItemLines
    /\ Idle

InitParse ==
    /\ task = "Parse"
    /\ pc = "call"
    /\ arg \in {JoinLines(d) : d \in Docs}
    /\ Idle

InitParseMedia ==
    /\ task = "parseMedia"
    /\ pc = "call"
    /\ arg \in MediaBodies
    /\ Idle

InitParsePara ==
    /\ task = "parsePara"
    /\ pc = "call"
    /\ arg \in ParaTexts
    /\ Idle

InitFixupLinks ==
    /\ task = "fixupLinks"
    /\ pc = "call"
    /\ arg = <<>>
    /\ fault = "none"
    /\ ret = NoRet
    /\ physicalLines = <<>>
    /\ physicalLineIndex = 0
    /\ blockBytes = <<>>
    /\ lastBlockBytes = <<>>
    /\ isInCodeTag = FALSE
    /\ isInFileTag = FALSE
    /\ isInHTMLTag = FALSE
    /\ isInhtmlTag = FALSE
    /\ isInNoWikiTag = FALSE
    /\ blocks = <<>>
    /\ blockIndex = 0
    /\ Sections = <<>>
    /\ rawTextBytes = <<>>
    /\ offset = 0
    /\ currentEffect = 0
    /\ effectBytes = <<>>
    /\ InnerContexts \in FixSlices

Init ==
    \/ InitParseSectionHeader
    \/ InitParseListItem
    \/ InitParse
    \/ InitParseMedia
    \/ InitParsePara
    \/ InitFixupLinks

-----------------------------------------------------------------------------
(* The operations. *)

CallParseSectionHeader ==
    /\ task = "parseSectionHeader"
    /\ pc = "call"
    /\ ret' = parseSectionHeader(arg)
    /\ pc' = "return"
    /\ UNCHANGED <<task, fault, arg, genVars, blockIndex, Sections, paraVars, InnerContexts>>

CallParseListItem ==
    /\ task = "parseListItem"
    /\ pc = "call"
    /\ ret' = parseListItem(arg)
    /\ pc' = "return"
    /\ UNCHANGED <<task, fault, arg, genVars, blockIndex, Sections, paraVars, InnerContexts>>

\* Parse calls generateLines: origContent = append(origContent, '\n') and the split
CallParse ==
    /\ task = "Parse"
    /\ pc = "call"
    /\ physicalLines' = Split(Append(arg, "\n"))
    /\ pc' = "generateLines"
    /\ UNCHANGED <<task, fault, arg, ret, physicalLineIndex, blockBytes, lastBlockBytes,
                   isInCodeTag, isInFileTag, isInHTMLTag, isInhtmlTag, isInNoWikiTag,
                   blocks, blockIndex, Sections, paraVars, InnerContexts>>

\* one iteration of the loop of generateLines over the physical lines
GenerateLine ==
    /\ task = "Parse"
    /\ pc = "generateLines"
    /\ physicalLineIndex < Len(physicalLines)
    /\ LET physicalLine == physicalLines[physicalLineIndex + 1]
           nextPhysicalLine == IF physicalLineIndex < Len(physicalLines) - 1
                               THEN physicalLines[physicalLineIndex + 2]
                               ELSE <<>>
           st == ScanLine([bb |-> blockBytes, code |-> isInCodeTag, file |-> isInFileTag,
                           HTML |-> isInHTMLTag, html |-> isInhtmlTag,
                           nowiki |-> isInNoWikiTag], physicalLine, 1)
           out == ProcessNewLine(st, lastBlockBytes, blocks, nextPhysicalLine)
       IN  /\ isInCodeTag' = st.code
           /\ isInFileTag' = st.file
           /\ isInHTMLTag' = st.HTML
           /\ isInhtmlTag' = st.html
           /\ isInNoWikiTag' = st.nowiki
           /\ blockBytes' = out.bb
           /\ lastBlockBytes' = out.last
           /\ blocks' = out.blocks
    /\ physicalLineIndex' = physicalLineIndex + 1
    /\ UNCHANGED <<task, pc, fault, arg, ret, physicalLines, blockIndex, Sections, paraVars,
                   InnerContexts>>

\* generateLines returns its blocks; Parse calls processContent
GenerateLinesReturn ==
    /\ task = "Parse"
    /\ pc = "generateLines"
    /\ physicalLineIndex = Len(physicalLines)
    /\ pc' = "processContent"
    /\ UNCHANGED <<task, fault, arg, ret, genVars, blockIndex, Sections, paraVars,
                   InnerContexts>>

\* one iteration of the loop of processContent: processLine on the next block
ProcessLine ==
    /\ task = "Parse"
    /\ pc = "processContent"
    /\ blockIndex < Len(blocks)
    /\ LET out == processLine(Sections, blocks[blockIndex + 1])
       IN  /\ Sections' = out.Sections
           /\ fault' = out.fault
           /\ pc' = IF out.fault = "none" THEN "processContent" ELSE "panic"
    /\ blockIndex' = blockIndex + 1
    /\ UNCHANGED <<task, arg, ret, genVars, paraVars, InnerContexts>>

\* walkAST, whose body is empty, and the return of Parse
WalkAST ==
    /\ task = "Parse"
    /\ pc = "processContent"
    /\ blockIndex = Len(blocks)
    /\ pc' = "return"
    /\ UNCHANGED <<task, fault, arg, ret, genVars, blockIndex, Sections, paraVars,
                   InnerContexts>>

CallParseMedia ==
    /\ task = "parseMedia"
    /\ pc = "call"
    /\ LET out == parseMedia(arg)
       IN  /\ ret' = out.node
           /\ fault' = out.fault
           /\ pc' = IF out.fault = "none" THEN "return" ELSE "panic"
    /\ UNCHANGED <<task, arg, genVars, blockIndex, Sections, paraVars, InnerContexts>>

\* parsePara is entered: rawTextBytes := []byte(c.rawText)
CallParsePara ==
    /\ task = "parsePara"
    /\ pc = "call"
    /\ rawTextBytes' = arg
    /\ pc' = "scan"
    /\ UNCHANGED <<task, fault, arg, ret, genVars, blockIndex, Sections, offset,
                   currentEffect, effectBytes, InnerContexts>>

\* one iteration of the scan loop of parsePara.  The buffer and the node
\* sequence of a scan that does not advance grow without limit; the model
\* follows them MaxRepeat elements past the length of the text.
ScanIteration ==
    /\ task = "parsePara"
    /\ pc = "scan"
    /\ offset < Len(rawTextBytes)
    /\ Len(effectBytes) < Len(rawTextBytes) + MaxRepeat
    /\ InnerContexts.len < Len(rawTextBytes) + MaxRepeat
    /\ LET st == scanIteration([offset |-> offset, currentEffect |-> currentEffect,
                                effectBytes |-> effectBytes, inner |-> InnerContexts,
                                fault |-> "none"], rawTextBytes)
       IN  /\ offset' = st.offset
           /\ currentEffect' = st.currentEffect
           /\ effectBytes' = st.effectBytes
           /\ InnerContexts' = st.inner
           /\ fault' = st.fault
           /\ pc' = IF st.fault = "none" THEN "scan" ELSE "panic"
    /\ UNCHANGED <<task, arg, ret, genVars, blockIndex, Sections, rawTextBytes>>

\* the scan loop ends and parsePara calls fixupLinks(c)
ScanEnd ==
    /\ task = "parsePara"
    /\ pc = "scan"
    /\ offset >= Len(rawTextBytes)
    /\ pc' = "fixupLinks"
    /\ UNCHANGED <<task, fault, arg, ret, genVars, blockIndex, Sections, paraVars,
                   InnerContexts>>

\* fixupLinks is called on a node sequence
CallFixupLinks ==
    /\ task = "fixupLinks"
    /\ pc = "call"
    /\ pc' = "fixupLinks"
    /\ UNCHANGED <<task, fault, arg, ret, genVars, blockIndex, Sections, paraVars,
                   InnerContexts>>

\* one iteration of the loop of fixupLinks: scanParaOnce(c), and the return
\* when it found no link
ScanParaOnce ==
    /\ pc = "fixupLinks"
    /\ LET out == scanParaOnce(InnerContexts)
       IN  /\ InnerContexts' = out.inner
           /\ pc' = IF out.found THEN "fixupLinks" ELSE "return"
    /\ UNCHANGED <<task, fault, arg, ret, genVars, blockIndex, Sections, paraVars>>

Next ==
    \/ CallParseSectionHeader
    \/ CallParseListItem
    \/ CallParse
    \/ GenerateLine
    \/ GenerateLinesReturn
    \/ ProcessLine
    \/ WalkAST
    \/ CallParseMedia
    \/ CallParsePara
    \/ ScanIteration
    \/ ScanEnd
    \/ CallFixupLinks
    \/ ScanParaOnce

Spec == Init /\ [][Next]_vars

-----------------------------------------------------------------------------
(* The claims. *)

\* line is n '=', then k bytes without '=', then m '=', then spaces and tabs
IsHeaderForm(line, n, k, m) ==
    /\ n + k + m <= Len(line)
    /\ \A i \in 1..n : line[i] = "="
    /\ \A i \in (n + 1)..(n + k) : line[i] # "="
    /\ \A i \in (n + k + 1)..(n + k + m) : line[i] = "="
    /\ \A i \in (n + k + m + 1)..Len(line) : line[i] \in {" ", "\t"}

HeaderResultAsClaimed(line, n, k, m) ==
    /\ (n = m /\ n >= 1) => ret = [level |-> n, text |-> TrimSpace(SubSeq(line, n + 1, n + k))]
    /\ n # m => ret.level = 0

\* C1 as stated: for every line made of n '=', a text without '=' and m '='
\* (then spaces or tabs), parseSectionHeader returns level n and the trimmed
\* text when n = m >= 1, and level 0 when n # m.  The text may be empty.
C1_AsStated ==
    (task = "parseSectionHeader" /\ pc = "return") =>
        \A n, k, m \in 0..Len(arg) :
            IsHeaderForm(arg, n, k, m) => HeaderResultAsClaimed(arg, n, k, m)

\* C1 amended: the same for every such line whose text has at least one byte
\* (a line of '=' only, such as "====", is not a header).
C1_HeaderLevels ==
    (task = "parseSectionHeader" /\ pc = "return") =>
        \A n, k, m \in 0..Len(arg) :
            (k >= 1 /\ IsHeaderForm(arg, n, k, m)) => HeaderResultAsClaimed(arg, n, k, m)

C1_Witness ==
    /\ task = "parseSectionHeader"
    /\ pc = "return"
    /\ arg = TestHeaderLine
    /\ ret = [level |-> 3, text |-> <<"a", "b", "c">>]

\* line is k two-space groups, a marker '*' or '-', one space and a text
IsItemForm(line, k) ==
    /\ k >= 1
    /\ Len(line) >= 2 * k + 2
    /\ \A i \in 1..(2 * k) : line[i] = " "
    /\ line[2 * k + 1] \in {"*", "-"}
    /\ line[2 * k + 2] = " "

\* C3: parseListItem("  - abc ") is level 2, ordered, "abc"; the level of every
\* line that parses as a list item is the number of its leading space bytes,
\* and every line of k >= 1 two-space groups, a marker and a space parses as one.
C3_LevelIsLeadingSpaces ==
    (task = "parseListItem" /\ pc = "return") =>
        /\ arg = TestItemLine =>
               ret = [level |-> 2, ordered |-> TRUE, text |-> <<"a", "b", "c">>]
        /\ ret.level > 0 => ret.level = LeadRun(arg, {" "})
        /\ \A k \in 1..Len(arg) : IsItemForm(arg, k) => ret.level = LeadRun(arg, {" "})

C3_Witness ==
    /\ task = "parseListItem"
    /\ pc = "return"
    /\ arg = TestItemLine
    /\ ret.level = 2
    /\ ret.ordered

\* C2 as stated: for a list item line of k two-space groups, parseListItem
\* reports level k, ordered iff the marker is '-', and the trimmed text.
C2_AsStated ==
    (task = "parseListItem" /\ pc = "return") =>
        \A k \in 1..Len(arg) :
            IsItemForm(arg, k) =>
                ret = [level |-> k, ordered |-> (arg[2 * k + 1] = "-"),
                       text |-> TrimSpace(SubSeq(arg, 2 * k + 3, Len(arg)))]

C2_ItemResult ==
    (task = "parseListItem" /\ pc = "return") =>
        \A k \in 1..Len(arg) :
            IsItemForm(arg, k) =>
                ret = [level |-> 2 * k, ordered |-> (arg[2 * k + 1] = "-"),
                       text |-> TrimSpace(SubSeq(arg, 2 * k + 3, Len(arg)))]

\* a step of generateLines over a list item line (k groups, no tag in it)
\* that starts with an empty buffer outside every verbatim region
C2_ItemLineStep(k) ==
    /\ task = "Parse"
    /\ pc = "generateLines"
    /\ physicalLineIndex < Len(physicalLines)
    /\ physicalLineIndex' = physicalLineIndex + 1
    /\ ~(isInCodeTag \/ isInFileTag \/ isInHTMLTag \/ isInhtmlTag \/ isInNoWikiTag)
    /\ blockBytes = <<>>
    /\ IsItemForm(physicalLines[physicalLineIndex + 1], k)
    /\ ">" \notin Range(physicalLines[physicalLineIndex + 1])

C2_ItemBlockStep ==
    \A k \in 1..MaxItemLen :
        C2_ItemLineStep(k) =>
            LET line == physicalLines[physicalLineIndex + 1]
                b == blocks'[Len(blocks')]
            IN  /\ Len(blocks') = Len(blocks) + 1
                /\ b.listLevel = 2 * k
                /\ b.blockType = IF line[2 * k + 1] = "-" THEN orderedListType
                                 ELSE unOrderedListType
                /\ b.rawText = TrimSpace(SubSeq(line, 2 * k + 3, Len(line)))

\* C2 amended: for a list item line of k two-space groups, parseListItem and
\* the listLevel of the block generateLines emits report level 2k (the number
\* of indentation spaces), ordered iff the marker is '-', and the trimmed text.
C2_LevelIsTwiceGroups == [](C2_ItemResult) /\ [][C2_ItemBlockStep]_vars

C2_Witness ==
    /\ task = "parseListItem"
    /\ pc = "return"
    /\ arg = <<" ", " ", " ", " ", "-", " ">>
    /\ ret = [level |-> 4, ordered |-> TRUE, text |-> <<>>]

IsList(node) == node.kind = "ListContext"

IsParagraph(node, text) == node.kind = "ParaContext" /\ node.rawText = text

\* C4: "  * a", "    * b", "  * c" give one top-level unordered List whose
\* children are Paragraph(a), a nested List holding Paragraph(b), and
\* Paragraph(c).  The levels are accepted counted in groups (1, 2) or in
\* spaces (2, 4).
C4_AsStated ==
    (task = "Parse" /\ arg = JoinLines(<<LineItemA, LineItemB, LineItemC>>) /\ pc = "return") =>
        /\ Len(Sections) = 1
        /\ IsList(Sections[1])
        /\ ~Sections[1].Ordered
        /\ Sections[1].Level \in {1, 2}
        /\ Len(Sections[1].InnerContexts) = 3
        /\ IsParagraph(Sections[1].InnerContexts[1], <<"a">>)
        /\ IsList(Sections[1].InnerContexts[2])
        /\ Sections[1].InnerContexts[2].Level \in {2, 4}
        /\ Len(Sections[1].InnerContexts[2].InnerContexts) = 1
        /\ IsParagraph(Sections[1].InnerContexts[2].InnerContexts[1], <<"b">>)
        /\ IsParagraph(Sections[1].InnerContexts[3], <<"c">>)

\* the lines i and i + 2 of the input are list items of the same level and
\* ordered-ness with a blank line between them, in an input without any tag
BlankBetweenItems(i) ==
    /\ i + 2 <= Len(physicalLines)
    /\ parseListItem(physicalLines[i]).level > 0
    /\ parseListItem(physicalLines[i + 2]).level = parseListItem(physicalLines[i]).level
    /\ parseListItem(physicalLines[i + 2]).ordered = parseListItem(physicalLines[i]).ordered
    /\ Len(TrimSpace(physicalLines[i + 1])) = 0
    /\ "<" \notin Range(arg)

\* whether the top-level node is a List whose last child is Paragraph(text)
ListHolding(node, item) ==
    /\ IsList(node)
    /\ node.Level = item.level
    /\ node.Ordered = item.ordered
    /\ Len(node.InnerContexts) > 0
    /\ IsParagraph(node.InnerContexts[Len(node.InnerContexts)], item.text)

\* C5: two list items of the same level and ordered-ness separated by a blank
\* line end in two distinct top-level List nodes, wherever they occur.
C5_AsStated ==
    (task = "Parse" /\ pc = "return") =>
        \A i \in 1..Len(physicalLines) :
            BlankBetweenItems(i) =>
                \E j1, j2 \in 1..Len(Sections) :
                    /\ j1 < j2
                    /\ ListHolding(Sections[j1], parseListItem(physicalLines[i]))
                    /\ ListHolding(Sections[j2], parseListItem(physicalLines[i + 2]))

\* C6: while parsePara scans "**bold** plain **bold again**" the BOLD bit is
\* set exactly when an odd number of "**" pairs lies before the read offset
\* (text between an opening and a closing pair is bold, text outside is not),
\* no emitted node holds a delimiter byte, and the call ends with exactly the
\* nodes StyledText{BOLD, "bold"}, StyledText{0, " plain "}, StyledText{BOLD, "bold again"}.
C6_AsStated ==
    (task = "parsePara" /\ arg = TextBold /\ pc \in {"scan", "fixupLinks", "return"}) =>
        /\ HasEffect(currentEffect, TextEffectBold) <=>
               (Cardinality({p \in 1..offset : rawTextBytes[p] = "*"}) \div 2) % 2 = 1
        /\ \A i \in 1..InnerContexts.len :
               /\ InnerContexts.arr[i].kind = "TextEffectContext"
               /\ "*" \notin Range(InnerContexts.arr[i].Text)
        /\ pc = "return" =>
               Elems(InnerContexts) =
                  <<TextEffectContext(TextEffectBold, <<"b", "o", "l", "d">>),
                    TextEffectContext(0, <<" ", "p", "l", "a", "i", "n", " ">>),
                    TextEffectContext(TextEffectBold,
                        <<"b", "o", "l", "d", " ", "a", "g", "a", "i", "n">>)>>

\* C7: "<code>**not bold**</code>" is protected: the scanner hands on the
\* text between the two code markers, the document holds a single literal
\* block of kind code with text "**not bold**", and the inline parser makes
\* no styled text and sets no bold bit for it.
C7_AsStated ==
    /\ (task = "Parse" /\ arg = LineCodeNotBold /\ pc \in {"processContent", "return"}) =>
           blocks = <<paraBlock(TextMarkedNotBold)>>
    /\ (task = "Parse" /\ arg = LineCodeNotBold /\ pc = "return") =>
           /\ Len(Sections) = 1
           /\ Sections[1].kind = "ParaContext"
           /\ Sections[1].InnerContexts = <<LiteralContext("CodeFileContext", NotBold)>>
    /\ (task = "parsePara" /\ arg = TextCodeNotBold) =>
           /\ ~HasEffect(currentEffect, TextEffectBold)
           /\ \A i \in 1..InnerContexts.len : InnerContexts.arr[i].kind # "TextEffectContext"

\* C8: when the end of the input is reached with a verbatim mode open (or for
\* "<code>abc"), the parse ends with UnterminatedLiteralBlock and no document.
C8_AsStated ==
    (/\ task = "Parse"
     /\ pc \in {"processContent", "return", "panic"}
     /\ \/ isInCodeTag \/ isInFileTag \/ isInHTMLTag \/ isInhtmlTag \/ isInNoWikiTag
        \/ arg = LineCodeAbc) =>
        /\ fault = "UnterminatedLiteralBlock"
        /\ pc = "panic"

\* the value of a decimal numeral
RECURSIVE Decimal(_)
Decimal(digits) ==
    IF Len(digits) = 0 THEN 0
    ELSE 10 * Decimal(SubSeq(digits, 1, Len(digits) - 1)) + DigitValue(digits[Len(digits)])

\* C9: for a body made of an optional leading space, a name, '?W' or '?WxH'
\* and an optional '|title', parseMedia gives the name, width W, height H,
\* align Left when the body starts with a space, and the title; parsePara on
\* "{{ image.png?200x100|Caption}}" gives that one Media node.
C9_AsStated ==
    /\ (task = "parseMedia" /\ pc \in {"return", "panic"}) =>
           \A m \in MediaCases :
               arg = MediaBody(m[1], m[2], m[3], m[4], m[5]) =>
                   /\ fault = "none"
                   /\ ret.MediaResouce = m[2]
                   /\ ret.Width = Decimal(m[3])
                   /\ m[4] # <<>> => ret.Height = Decimal(m[4])
                   /\ m[1] = <<" ">> => ret.Align = AlignLeft
                   /\ ret.Title = m[5]
    /\ (task = "parsePara" /\ arg = TextMediaExample /\ pc = "return") =>
           Elems(InnerContexts) =
               <<MediaContext(200, 100, AlignLeft, <<"C", "a", "p", "t", "i", "o", "n">>,
                              <<"i", "m", "a", "g", "e", ".", "p", "n", "g">>)>>

\* C10: fixupLinks is idempotent on every node sequence, and once it has
\* returned no TextEffectContext holds a URL and a further scanParaOnce finds
\* nothing and changes nothing.
C10_FixupIdempotent ==
    /\ (task = "fixupLinks" /\ pc = "call") =>
           fixupLinks(fixupLinks(InnerContexts)) = fixupLinks(InnerContexts)
    /\ (task \in {"fixupLinks", "parsePara"} /\ pc = "return") =>
           /\ \A i \in 1..InnerContexts.len : ~HasURL(InnerContexts.arr[i])
           /\ scanParaOnce(InnerContexts) = [found |-> FALSE, inner |-> InnerContexts]
           /\ fixupLinks(InnerContexts) = InnerContexts

C10_Witness ==
    /\ task = "fixupLinks"
    /\ pc = "return"
    /\ \E i, j \in 1..InnerContexts.len :
           /\ i < j
           /\ InnerContexts.arr[i] = HyperLinkContext(URLab, URLab, FALSE)
           /\ InnerContexts.arr[j] = HyperLinkContext(URLcd, URLcd, FALSE)

\* a step of the scan loop of parsePara: one iteration, at the byte at offset
ScanStep ==
    /\ task = "parsePara"
    /\ pc = "scan"
    /\ offset < Len(rawTextBytes)
    /\ pc' \in {"scan", "panic"}

\* C11: every iteration of the scan loop of parsePara either advances the
\* read offset by at least one byte or ends the parse with a fatal error.
C11_AsStated ==
    [][ScanStep => (offset' > offset \/ pc' = "panic")]_vars

\* the Paragraph nodes of the tree: at top level or the children of a List
Paragraphs(sections) ==
    {sections[i] : i \in {j \in 1..Len(sections) : sections[j].kind = "ParaContext"}}
        \cup UNION {{n \in Range(sections[i].InnerContexts) : n.kind = "ParaContext"} :
                       i \in {j \in 1..Len(sections) : sections[j].kind = "ListContext"}}

\* C12: when Parse returns, every block has been assembled, and every
\* Paragraph of the tree with a non-empty raw text holds the inline node
\* sequence that parsePara and fixupLinks make of it.
C12_AsStated ==
    (task = "Parse" /\ pc = "return") =>
        /\ blockIndex = Len(blocks)
        /\ \A para \in Paragraphs(Sections) :
               Len(para.rawText) > 0 => Len(para.InnerContexts) > 0

\* how many of the five verbatim modes are open in the scanner state st
OpenModes(st) == Cardinality({m \in {"code", "file", "HTML", "html", "nowiki"} : st[m]})

\* the buffer ends with an end tag literal
EndsWithEndTag(bb) ==
    \E tag \in {<<"c", "o", "d", "e">>, <<"f", "i", "l", "e">>, <<"h", "t", "m", "l">>,
                <<"H", "T", "M", "L">>, <<"n", "o", "w", "i", "k", "i">>} :
        HasSuffix(bb, <<"<", "/">> \o tag \o <<">">>)

\* the buffer ends with a start tag of one of the five kinds
EndsWithStartTag(bb) ==
    /\ ~EndsWithEndTag(bb)
    /\ \/ validCodeStartTagLen(bb) > 0
       \/ validFileStartTagLen(bb) > 0
       \/ HasSuffix(bb, <<"<", "h", "t", "m", "l", ">">>)
       \/ HasSuffix(bb, <<"<", "H", "T", "M", "L", ">">>)
       \/ HasSuffix(bb, <<"<", "n", "o", "w", "i", "k", "i", ">">>)

\* the state of the scanner held in the variables
ScannerState ==
    [bb |-> blockBytes, code |-> isInCodeTag, file |-> isInFileTag, HTML |-> isInHTMLTag,
     html |-> isInhtmlTag, nowiki |-> isInNoWikiTag]

\* at most one mode is open before and after every byte of the next physical
\* line, and a start tag completed while a mode is open is kept as text
C13_ModesInLine ==
    /\ OpenModes(ScannerState) <= 1
    /\ (task = "Parse" /\ pc = "generateLines" /\ physicalLineIndex < Len(physicalLines)) =>
           LET line == physicalLines[physicalLineIndex + 1]
           IN  \A i \in 1..Len(line) :
                   LET st == ScanLine(ScannerState, SubSeq(line, 1, i - 1), 1)
                       after == ScanByte(st, line[i])
                   IN  /\ OpenModes(after) <= 1
                       /\ (OpenModes(st) >= 1 /\ EndsWithStartTag(Append(st.bb, line[i]))) =>
                              after = [st EXCEPT !.bb = Append(st.bb, line[i])]

\* a step of generateLines that ends a physical line with a mode open emits no block
C13_NoBlockInRegion ==
    (task = "Parse" /\ pc = "generateLines" /\ physicalLineIndex' = physicalLineIndex + 1
         /\ (isInCodeTag' \/ isInFileTag' \/ isInHTMLTag' \/ isInhtmlTag' \/ isInNoWikiTag')) =>
        blocks' = blocks

\* C13: in every state of the literal-region scanner at most one of the five
\* verbatim modes is open; a start tag seen while a mode is open changes
\* neither the mode nor the buffer (it stays as text, without start sentinel);
\* and no block is emitted for a line inside an open region.
C13_OneModeOpen == [](C13_ModesInLine) /\ [][C13_NoBlockInRegion]_vars

C13_Witness ==
    /\ task = "Parse"
    /\ isInhtmlTag
    /\ ~isInCodeTag
    /\ blockBytes = startOfhtmlTag \o <<"\n">> \o LineCodeAttrAbc \o <<"\n">>
    /\ blocks = <<>>

\* C14: the panic "PANIC!" that processLine raises when it is to descend into
\* a List without children is never reached, for every input of Parse.
C14_AsStated ==
    task = "Parse" => (fault # "PANIC!" /\ pc # "panic")

\* the byte at the read offset is a delimiter byte without its twin after it
\* (a lone '[' or '{' included), possibly the last byte of the text
LoneDelimiter ==
    /\ rawTextBytes[offset + 1] \in {BackQuote, "_", "/", "*", "[", "{"}
    /\ (offset + 2 <= Len(rawTextBytes) =>
            rawTextBytes[offset + 2] # rawTextBytes[offset + 1])

\* C15: an iteration of the scan at a lone delimiter byte, the last byte of
\* the text included, appends the byte once to the text buffer and moves on,
\* with the mask unchanged and without a fault.
C15_AsStated ==
    [][(ScanStep /\ LoneDelimiter) =>
           /\ effectBytes' = Append(effectBytes, rawTextBytes[offset + 1])
           /\ offset' = offset + 1
           /\ currentEffect' = currentEffect
           /\ fault' = "none"
           /\ pc' = "scan"]_vars

\* the text carries a URL scheme
HasScheme(text) ==
    \E p \in 1..Len(text) :
        p + 2 <= Len(text) /\ SubSeq(text, p, p + 2) = <<":", "/", "/">>

\* C16: the Link made from the text between "[[" and "]]" is internal only
\* if the text has no '|' and no URL scheme, and without '|' its target and
\* its display text are both the whole text.
C16_AsStated ==
    (task = "parsePara" /\ arg \in {TextLink, TextLinkPlain, TextLinkURL}
         /\ pc \in {"fixupLinks", "return"}) =>
        LET enclosed == Slice(arg, 2, Len(arg) - 2)
            link == InnerContexts.arr[1]
        IN  /\ InnerContexts.len = 1
            /\ link.kind = "HyperLinkContext"
            /\ link.IsInternal => ("|" \notin Range(enclosed) /\ ~HasScheme(enclosed))
            /\ "|" \notin Range(enclosed) =>
                   (link.HyperLink = enclosed /\ link.Text = enclosed)

\* a step of processContent that hands a list block to processLine when the
\* block forces a new list or the tail of Sections is not a List
C17_NewListStep ==
    /\ task = "Parse"
    /\ pc = "processContent"
    /\ blockIndex < Len(blocks)
    /\ blockIndex' = blockIndex + 1
    /\ blocks[blockIndex + 1].blockType \in {orderedListType, unOrderedListType}
    /\ \/ blocks[blockIndex + 1].forceNewList
       \/ Len(Sections) = 0
       \/ Sections[Len(Sections)].kind # "ListContext"

\* C17: after such a step Sections ends with a new List of the block's level
\* and ordered-ness whose only child is the Paragraph of the item text.
C17_AsStated ==
    [][C17_NewListStep =>
           LET block == blocks[blockIndex + 1]
           IN  Sections' = Append(Sections,
                   ListContext(block.listLevel, block.blockType = orderedListType,
                               <<ParaContext(block.rawText)>>))]_vars

\* C18: when the scan of parsePara has reached the end of the text, every
\* byte of plain text is in an emitted node: nothing is left in the buffer,
\* and a text without markup such as "hello" has given exactly one
\* TextEffectContext with mask 0 and the whole text.
C18_AsStated ==
    (task = "parsePara" /\ pc \in {"fixupLinks", "return"}) =>
        /\ effectBytes = <<>>
        /\ arg \in {TextHello, <<"a">>, <<"a", " ", "a">>} =>
               Elems(InnerContexts) = <<TextEffectContext(0, arg)>>

\* the end tag literals with the mode each one closes
EndTags ==
    {<<"code", <<"<", "/", "c", "o", "d", "e", ">">>>>,
     <<"file", <<"<", "/", "f", "i", "l", "e", ">">>>>,
     <<"html", <<"<", "/", "h", "t", "m", "l", ">">>>>,
     <<"HTML", <<"<", "/", "H", "T", "M", "L", ">">>>>,
     <<"nowiki", <<"<", "/", "n", "o", "w", "i", "k", "i", ">">>>>}

\* C19: at every byte of the next physical line, when the buffer comes to end
\* with an end tag literal whose kind is not the open mode, the scanner keeps
\* the literal text in the buffer, writes no end sentinel and leaves the modes
\* as they are.
C19_AsStated ==
    (task = "Parse" /\ pc = "generateLines" /\ physicalLineIndex < Len(physicalLines)) =>
        LET line == physicalLines[physicalLineIndex + 1]
        IN  \A i \in 1..Len(line) :
                LET st == ScanLine(ScannerState, SubSeq(line, 1, i - 1), 1)
                    bb == Append(st.bb, line[i])
                IN  \A tag \in EndTags :
                        (HasSuffix(bb, tag[2]) /\ ~st[tag[1]]) =>
                            ScanByte(st, line[i]) = [st EXCEPT !.bb = bb]

\* C20: a step of scanParaOnce that finds a link replaces the first
\* TextEffectContext holding a URL by its one to three replacement nodes, and
\* the nodes before and after it stay as they were, in their order.
C20_AsStated ==
    [][(pc = "fixupLinks" /\ \E i \in 1..InnerContexts.len : HasURL(InnerContexts.arr[i])) =>
           LET nodes == Elems(InnerContexts)
               hits == {i \in 1..Len(nodes) : HasURL(nodes[i])}
               first == CHOOSE i \in hits : \A j \in hits : i <= j
           IN  Elems(InnerContexts') =
                   SubSeq(nodes, 1, first - 1) \o newContenxts(nodes[first])
                       \o SubSeq(nodes, first + 1, Len(nodes))]_vars

\* the URLs that validURL finds in text, one after the other
RECURSIVE URLsIn(_)
URLsIn(text) ==
    LET groups == validURLFindIndex(text)
    IN  IF groups = <<>>
        THEN {}
        ELSE {Slice(text, groups[1], groups[2])}
                 \cup URLsIn(Slice(text, groups[2], Len(text)))

\* the bare URLs of the TextEffectContext nodes of a node sequence
BareURLs(nodes) ==
    UNION {URLsIn(nodes[i].Text) :
               i \in {j \in 1..Len(nodes) : nodes[j].kind = "TextEffectContext"}}

\* the targets of the HyperLinkContext nodes of a node sequence
LinkTargets(nodes) ==
    {nodes[i].HyperLink : i \in {j \in 1..Len(nodes) : nodes[j].kind = "HyperLinkContext"}}

\* a scan of fixupLinks leaves every bare URL either bare or promoted
C21_ScanKeepsURLs ==
    (task = "fixupLinks" /\ pc = "fixupLinks") =>
        BareURLs(Elems(InnerContexts)) \subseteq
            (BareURLs(Elems(InnerContexts')) \cup LinkTargets(Elems(InnerContexts')))

\* C21: fixupLinks reaches a fixed point, and when it returns every bare URL
\* that occurred in a TextEffectContext of the sequence is the target of a
\* HyperLinkContext, several URLs of one node included: no scan drops a bare
\* URL, and none is left bare at the return.
C21_AsStated ==
    /\ [][C21_ScanKeepsURLs]_vars
    /\ []((task = "fixupLinks" /\ pc = "return") => BareURLs(Elems(InnerContexts)) = {})

\* the block is what some physical line of the input gives when parsed alone
FromOwnLine(block) ==
    \E i \in 1..Len(physicalLines) :
        IF block.blockType = sectionHeaderType
        THEN parseSectionHeader(physicalLines[i]) =
                 [level |-> block.headerLevel, text |-> block.rawText]
        ELSE parseListItem(physicalLines[i]) =
                 [level |-> block.listLevel, ordered |-> (block.blockType = orderedListType),
                  text |-> block.rawText]

\* C22: every header or list item block that generateLines emits comes from
\* a physical line that parses as such on its own, and a run of plain lines
\* gives one paragraph with the line breaks folded into spaces: the two lines
\* "=a" and "b=" give the one paragraph "=a b=".
C22_AsStated ==
    (task = "Parse" /\ pc \in {"generateLines", "processContent", "return", "panic"}) =>
        /\ \A k \in 1..Len(blocks) :
               blocks[k].blockType # paraType => FromOwnLine(blocks[k])
        /\ (arg = JoinLines(<<LineEqA, LineBEq>>) /\ pc # "generateLines") =>
               blocks = <<paraBlock(<<"=", "a", " ", "b", "=">>)>>

\* the media body without its "|title" part
BodyWithoutTitle(mediaBytes) ==
    LET i == Index(mediaBytes, <<"|">>)
    IN  IF i # -1 THEN Slice(mediaBytes, 0, i) ELSE mediaBytes

\* C23: for a media body that, without its "|title" part, is empty or one
\* byte (not a space), parseMedia returns without a fault a MediaContext with
\* alignment Center and the empty or the one-byte resource.
C23_AsStated ==
    (task = "parseMedia" /\ pc \in {"return", "panic"}
         /\ Len(BodyWithoutTitle(arg)) <= 1 /\ BodyWithoutTitle(arg) # <<" ">>) =>
        /\ pc = "return"
        /\ fault = "none"
        /\ ret.kind = "MediaContext"
        /\ ret.Align = AlignCenter
        /\ ret.MediaResouce = BodyWithoutTitle(arg)

====
